---- MODULE Spec2Model ----
(***************************************************************************)
(* SearchCloud (src/src/searchcloud/__init__.py): enumeration of the       *)
(* candidate files, the two line sources of ler_arquivo, the matcher built *)
(* from the search term, and the three result loops of main().             *)
(*                                                                         *)
(* Text is a sequence of one-character strings.  A path is a sequence of   *)
(* names and a name is a sequence of characters.  ByteInvalido stands for  *)
(* a byte that is not valid UTF-8.                                         *)
(***************************************************************************)
EXTENDS Naturals, Sequences, FiniteSets, TLC

VARIABLES
    fs,          \* the file system: path -> [tipo, dados]
    args,        \* the parsed command line (argparse namespace)
    BUFFER,      \* the module global BUFFER (False until main sets it)
    ordem,       \* the order in which the directory walk delivers entries
    pc,          \* position of main()
    arquivos,    \* main's `arquivos`
    termoC,      \* main's `_termo` (the compiled pattern)
    idx,         \* position of the `for arquivo in arquivos` loop
    ger,         \* the ler_arquivo generator of the file being scanned
    LINHAS,      \* main's `LINHAS`
    total_resultados,  \* main's `total_resultados`
    destino,     \* the text stream opened on args.salvar
    reportado,   \* <<n>> once "Total de linhas encontradas: n" is printed
    acessos,     \* history: kinds of file-system operation performed
    achadas,     \* history: lines for which re.search succeeded, in order
    marca,       \* history: number of results when the current file began
    fs0,         \* history: the file system when this run began
    execucao,    \* history: number of the current run of main()
    anterior,    \* history: destination entry when the previous run ended
    saidaB,      \* list(ler_arquivo(f)) with BUFFER = True  (line-source runs)
    saidaS       \* list(ler_arquivo(f)) with BUFFER = False (line-source runs)

vars == <<fs, args, BUFFER, ordem, pc, arquivos, termoC, idx, ger, LINHAS,
          total_resultados, destino, reportado, acessos, achadas, marca,
          fs0, execucao, anterior, saidaB, saidaS>>

-----------------------------------------------------------------------------
(* Bounds of the model *)

\* longest content of the varied file
MaxTam == 3
\* characters the text layer decodes per read of a file (io buffer, scaled)
TamBlocoLeitura == 2
\* characters the text layer holds before it hands them on (scaled)
TamBlocoEscrita == 3
\* characters the binary layer under it holds before it writes (scaled)
TamBufferBinario == 2
\* capacity of the volume holding the destination, in characters
MaxDisco == 7
\* number of consecutive runs of main() with the same command line
MaxExecucoes == 2

-----------------------------------------------------------------------------
(* Characters and Python's str helpers *)

NL == "\n"
FF == "\f"
ByteInvalido == "xFF"

\* the None that ler_arquivo yields and buscar_termo returns
Nulo == <<"None">>
\* an absent optional value (args.salvar not given, nothing printed yet)
Nenhum == <<>>

Min(a, b) == IF a < b THEN a ELSE b

SeqsAte(S, n) == UNION {[1..k -> S] : k \in 0..n}

\* the characters str.strip() removes
EspacoBranco == {" ", NL, FF}

\* the characters str.splitlines() splits on
LimitesSplitlines == {NL, FF}

\* the line terminator of a file opened in text mode
TerminadorArquivo == {NL}

RECURSIVE lstrip(_)
lstrip(s) ==
    IF s # <<>> /\ Head(s) \in EspacoBranco THEN lstrip(Tail(s)) ELSE s

RECURSIVE rstrip(_)
rstrip(s) ==
    IF s # <<>> /\ s[Len(s)] \in EspacoBranco
    THEN rstrip(SubSeq(s, 1, Len(s) - 1))
    ELSE s

strip(s) == rstrip(lstrip(s))

\* index of the first element of s that lies in S, or 0
RECURSIVE PrimeiroEm(_, _, _)
PrimeiroEm(s, S, i) ==
    IF i > Len(s) THEN 0
    ELSE IF s[i] \in S THEN i
    ELSE PrimeiroEm(s, S, i + 1)

\* str.splitlines(): the pieces between line boundaries, boundaries removed,
\* and no empty piece after a final boundary
RECURSIVE splitlines(_)
splitlines(s) ==
    IF s = <<>> THEN <<>>
    ELSE LET k == PrimeiroEm(s, LimitesSplitlines, 1) IN
         IF k = 0 THEN <<s>>
         ELSE <<SubSeq(s, 1, k - 1)>> \o splitlines(SubSeq(s, k + 1, Len(s)))

lower(c) == IF c = "A" THEN "a" ELSE c

-----------------------------------------------------------------------------
(* The pattern: re.escape, re.compile, re.search *)

\* characters re.escape protects
Especiais == {".", "(", "*", "?"}

RECURSIVE escape(_)
escape(t) ==
    IF t = <<>> THEN <<>>
    ELSE (IF Head(t) \in Especiais THEN <<"\\", Head(t)>> ELSE <<Head(t)>>)
         \o escape(Tail(t))

\* re.compile on the dialect the terms use: a backslash makes the next
\* character literal, "." is any character but newline, "(" opens a group
\* (never closed here, so the pattern is rejected), the rest is literal.
\* ok is FALSE where re.compile raises re.error.
RECURSIVE parse(_)
parse(p) ==
    IF p = <<>> THEN [ok |-> TRUE, atomos |-> <<>>]
    ELSE IF Head(p) = "\\"
    THEN IF Len(p) < 2 THEN [ok |-> FALSE, atomos |-> <<>>]
         ELSE LET r == parse(SubSeq(p, 3, Len(p))) IN
              [ok |-> r.ok,
               atomos |-> <<[lit |-> TRUE, c |-> p[2]]>> \o r.atomos]
    ELSE IF Head(p) = "(" THEN [ok |-> FALSE, atomos |-> <<>>]
    ELSE LET r == parse(Tail(p)) IN
         [ok |-> r.ok,
          atomos |-> <<[lit |-> Head(p) # ".", c |-> Head(p)]>> \o r.atomos]

compile(p, ignorecase) ==
    [ok |-> parse(p).ok,
     atomos |-> IF parse(p).ok THEN parse(p).atomos ELSE <<>>,
     ic |-> ignorecase]

CasaAtomo(a, c, ic) ==
    IF a.lit
    THEN (IF ic THEN lower(a.c) = lower(c) ELSE a.c = c)
    ELSE c # NL

\* re.search: the pattern occurs somewhere in the line
search(pat, linha) ==
    \E o \in 0..Len(linha) :
        /\ o + Len(pat.atomos) <= Len(linha)
        /\ \A i \in 1..Len(pat.atomos) :
               CasaAtomo(pat.atomos[i], linha[o + i], pat.ic)

buscar_termo(linha, termo) ==
    IF search(termo, linha) THEN linha ELSE Nulo

\* the truth value Python gives a `str | None`
valor_verdadeiro(v) == v # Nulo /\ v # <<>>

-----------------------------------------------------------------------------
(* The file system and the enumeration of candidate files *)

Ausente == [tipo |-> "ausente", dados |-> <<>>]
Diretorio == [tipo |-> "dir", dados |-> <<>>]
Arquivo(d) == [tipo |-> "arquivo", dados |-> d]

\* Path.is_file()
is_file(f, p) == p \in DOMAIN f /\ f[p].tipo = "arquivo"

is_dir(f, p) == p \in DOMAIN f /\ f[p].tipo = "dir"

\* str.removeprefix(".") as argparse applies it to --extensao
tipo_extensao(valor) ==
    IF valor # <<>> /\ Head(valor) = "." THEN Tail(valor) ELSE valor

\* the match of one name against one glob pattern component
RECURSIVE fnmatch(_, _)
fnmatch(nome, pat) ==
    IF pat = <<>> THEN nome = <<>>
    ELSE IF Head(pat) = "*"
    THEN fnmatch(nome, Tail(pat)) \/ (nome # <<>> /\ fnmatch(Tail(nome), pat))
    ELSE IF Head(pat) = "?"
    THEN nome # <<>> /\ fnmatch(Tail(nome), Tail(pat))
    ELSE nome # <<>> /\ Head(nome) = Head(pat) /\ fnmatch(Tail(nome), Tail(pat))

Abaixo(p, d) == Len(p) > Len(d) /\ SubSeq(p, 1, Len(d)) = d

\* Path.glob("**/*.<ext>"): the entries at any depth below d whose name
\* matches the pattern, in the order the walk delivers them
glob(f, ord, d, ext) ==
    IF ~is_dir(f, d) THEN <<>>
    ELSE LET casa(p) ==
                 /\ p \in DOMAIN f
                 /\ f[p].tipo # "ausente"
                 /\ Abaixo(p, d)
                 /\ fnmatch(p[Len(p)], <<"*", ".">> \o ext)
         IN SelectSeq(ord, casa)

\* ler_arquivos: [diretorio] for a regular file, else the regular files the
\* glob delivers
ler_arquivos(f, ord, diretorio, extensao) ==
    IF is_file(f, diretorio) THEN <<diretorio>>
    ELSE LET ehArquivo(p) == is_file(f, p)
         IN SelectSeq(glob(f, ord, diretorio, extensao), ehArquivo)

-----------------------------------------------------------------------------
(* The line source: the generator ler_arquivo *)

GerNovo == [estado |-> "novo", pos |-> 0, rbuf |-> <<>>, pend |-> <<>>]

\* one readline of a text file opened for reading: the text layer decodes the
\* file a block at a time and hands out the characters up to the next
\* terminator; a block holding an invalid byte raises
RECURSIVE readline(_, _, _)
readline(dados, pos, rbuf) ==
    LET k == PrimeiroEm(rbuf, TerminadorArquivo, 1) IN
    IF k # 0
    THEN [tipo |-> "linha", linha |-> SubSeq(rbuf, 1, k), pos |-> pos,
          rbuf |-> SubSeq(rbuf, k + 1, Len(rbuf))]
    ELSE LET bloco == SubSeq(dados, pos + 1,
                             Min(pos + TamBlocoLeitura, Len(dados))) IN
         IF bloco = <<>>
         THEN IF rbuf = <<>>
              THEN [tipo |-> "eof", linha |-> <<>>, pos |-> pos, rbuf |-> <<>>]
              ELSE [tipo |-> "linha", linha |-> rbuf, pos |-> pos,
                    rbuf |-> <<>>]
         ELSE IF \E i \in 1..Len(bloco) : bloco[i] = ByteInvalido
         THEN [tipo |-> "erro", linha |-> <<>>, pos |-> pos, rbuf |-> rbuf]
         ELSE readline(dados, pos + Len(bloco), rbuf \o bloco)

\* Path.read_text(encoding="utf-8"): the whole content, or a failure
read_text_ok(dados) == \A i \in 1..Len(dados) : dados[i] # ByteInvalido

\* the line a streaming read yields
linha_stream(linha) == strip(linha)

\* the lines a buffered read yields
linhas_buffer(dados) == splitlines(dados)

Parou(g) == [stop |-> TRUE, valor |-> <<>>, ger |-> [g EXCEPT !.estado = "fim"]]
Falhou(g) == [stop |-> FALSE, valor |-> Nulo,
              ger |-> [g EXCEPT !.estado = "falha"]]

\* next() on the generator ler_arquivo(p): a line, the None yielded by the
\* except clause, or the end of the iteration
proximo(g, f, p, buffer) ==
    IF g.estado \in {"falha", "fim"} THEN Parou(g)
    ELSE IF ~is_file(f, p) THEN Falhou(g)
    ELSE IF buffer
    THEN IF g.estado = "novo" /\ ~read_text_ok(f[p].dados) THEN Falhou(g)
         ELSE LET pend == IF g.estado = "novo"
                          THEN linhas_buffer(f[p].dados) ELSE g.pend IN
              IF pend = <<>> THEN Parou(g)
              ELSE [stop |-> FALSE, valor |-> Head(pend),
                    ger |-> [g EXCEPT !.estado = "ativo", !.pend = Tail(pend)]]
    ELSE LET r == readline(f[p].dados, g.pos, g.rbuf) IN
         IF r.tipo = "erro" THEN Falhou(g)
         ELSE IF r.tipo = "eof" THEN Parou(g)
         ELSE [stop |-> FALSE, valor |-> linha_stream(r.linha),
               ger |-> [g EXCEPT !.estado = "ativo", !.pos = r.pos,
                                 !.rbuf = r.rbuf]]

\* list(ler_arquivo(p)) on a file nobody writes meanwhile
RECURSIVE drenar(_, _, _, _)
drenar(g, f, p, buffer) ==
    LET r == proximo(g, f, p, buffer) IN
    IF r.stop THEN <<>> ELSE <<r.valor>> \o drenar(r.ger, f, p, buffer)

ler_arquivo(f, p, buffer) == drenar(GerNovo, f, p, buffer)

-----------------------------------------------------------------------------
(* The destination: a text stream opened with open(args.salvar, "w") *)

Fechado == [aberto |-> FALSE, pend |-> <<>>, buf |-> <<>>]

\* one write to the volume: it takes what still fits and returns the count;
\* ok is FALSE where nothing fits (OSError)
raw_write(disco, dados) ==
    LET n == Min(Len(dados), MaxDisco - Len(disco))
    IN [disco |-> disco \o SubSeq(dados, 1, n), n |-> n,
        ok |-> n > 0 \/ dados = <<>>]

\* the binary layer empties its buffer: writes to the volume until all of it
\* is there or one of them fails
despejar(disco, dados) ==
    [disco |-> raw_write(disco, dados).disco,
     ok |-> raw_write(disco, dados).n = Len(dados)]

\* the binary layer under the text layer: data that fits in the free part of
\* its buffer is kept there; otherwise the buffer goes to the volume first,
\* data larger than the whole buffer follows it, and what is left of the
\* data (all of it, or the part a short write did not take) is kept
buffer_write(disco, buf, dados) ==
    IF Len(dados) <= TamBufferBinario - Len(buf)
    THEN [disco |-> disco, buf |-> buf \o dados, ok |-> TRUE]
    ELSE LET r1 == despejar(disco, buf)
             r2 == raw_write(r1.disco, dados)
             resto == SubSeq(dados, r2.n + 1, Len(dados))
         IN IF ~r1.ok THEN [disco |-> r1.disco, buf |-> <<>>, ok |-> FALSE]
            ELSE IF Len(dados) <= TamBufferBinario
            THEN [disco |-> r1.disco, buf |-> dados, ok |-> TRUE]
            ELSE IF r2.ok /\ Len(resto) <= TamBufferBinario
            THEN [disco |-> r2.disco, buf |-> resto, ok |-> TRUE]
            ELSE [disco |-> r2.disco, buf |-> <<>>, ok |-> FALSE]

\* arquivo.write(s): the text layer keeps whole writes pending; it hands the
\* pending text to the binary layer before a write that would overflow the
\* block and after one that fills it; ok is FALSE where write raises OSError
write(disco, buf, pend, s) ==
    LET antes == pend # <<>> /\ Len(pend) + Len(s) > TamBlocoEscrita
        r1 == IF antes THEN buffer_write(disco, buf, pend)
              ELSE [disco |-> disco, buf |-> buf, ok |-> TRUE]
        pend2 == (IF antes THEN <<>> ELSE pend) \o s
        r2 == buffer_write(r1.disco, r1.buf, pend2)
    IN IF ~r1.ok
       THEN [disco |-> r1.disco, buf |-> <<>>, pend |-> <<>>, ok |-> FALSE]
       ELSE IF Len(pend2) >= TamBlocoEscrita
       THEN [disco |-> r2.disco, buf |-> r2.buf, pend |-> <<>>, ok |-> r2.ok]
       ELSE [disco |-> r1.disco, buf |-> r1.buf, pend |-> pend2, ok |-> TRUE]

\* arquivo.close(): the pending text goes to the binary layer and its buffer
\* to the volume; ok is FALSE where close raises OSError
close(disco, buf, pend) ==
    LET r1 == IF pend # <<>> THEN buffer_write(disco, buf, pend)
              ELSE [disco |-> disco, buf |-> buf, ok |-> TRUE]
        r2 == despejar(r1.disco, r1.buf)
    IN IF ~r1.ok THEN [disco |-> r1.disco, ok |-> FALSE]
       ELSE [disco |-> r2.disco, ok |-> r2.ok]

\* what the stream has been given so far: on the volume or held in a layer
Escrito == IF args.salvar \in DOMAIN fs
           THEN fs[args.salvar].dados \o destino.buf \o destino.pend
           ELSE <<>>

-----------------------------------------------------------------------------
(* main() *)

Ponto == << <<".">> >>
RaizD == << <<"d">> >>
DIRETORIO_CHAMADO == RaizD

\* the number of results the running mode has gathered
Contagem == IF pc = "memoria" THEN Len(LINHAS) ELSE total_resultados

\* a run that goes on with an empty list
lista_vazia_nunca(arqs) == FALSE

\* `len(arquivos) == 0` ends the run
lista_vazia(arqs) == Len(arqs) = 0

\* lines 200-212: set the globals, enumerate, stop when nothing was found
ListarArquivos ==
    /\ pc = "inicio"
    /\ BUFFER' = args.buffer
    /\ LET diretorio_operacao ==
               IF args.diretorio = Ponto THEN DIRETORIO_CHAMADO
               ELSE args.diretorio
           arqs == ler_arquivos(fs, ordem, diretorio_operacao, args.extensao)
       IN /\ arquivos' = arqs
          /\ pc' = IF lista_vazia(arqs) THEN "fim" ELSE "compilar"
    /\ acessos' = acessos \cup {"listar"}
    /\ UNCHANGED <<fs, args, ordem, termoC, idx, ger, LINHAS,
                   total_resultados, destino, reportado, achadas, marca, fs0,
                   execucao, anterior, saidaB, saidaS>>

\* lines 215-226: compile the term, zero the total, choose the result loop
Compilar ==
    /\ pc = "compilar"
    /\ LET t == compile(IF ~args.regex THEN escape(args.termo)
                        ELSE args.termo, args.ignorecase)
       IN /\ termoC' = t
          /\ pc' = IF ~t.ok THEN "erro"
                   ELSE IF args.salvar # Nenhum
                   THEN (IF BUFFER THEN "memoria" ELSE "abrir")
                   ELSE "contar"
    /\ total_resultados' = 0
    /\ LINHAS' = <<>>
    /\ idx' = 1
    /\ ger' = GerNovo
    /\ marca' = 0
    /\ UNCHANGED <<fs, args, BUFFER, ordem, arquivos, destino, reportado,
                   acessos, achadas, fs0, execucao, anterior, saidaB,
                   saidaS>>

\* line 237: open(args.salvar, "w") creates or truncates the destination
AbrirDestino ==
    /\ pc = "abrir"
    /\ acessos' = acessos \cup {"gravar"}
    /\ IF args.salvar \in DOMAIN fs /\ fs[args.salvar].tipo # "dir"
       THEN /\ fs' = [fs EXCEPT ![args.salvar] = Arquivo(<<>>)]
            /\ destino' = [aberto |-> TRUE, pend |-> <<>>, buf |-> <<>>]
            /\ pc' = "gravar"
       ELSE /\ pc' = "erro"
            /\ UNCHANGED <<fs, destino>>
    /\ UNCHANGED <<args, BUFFER, ordem, arquivos, termoC, idx, ger, LINHAS,
                   total_resultados, reportado, achadas, marca, fs0,
                   execucao, anterior, saidaB, saidaS>>

\* the result of one next() of the file being scanned
Leitura == proximo(ger, fs, arquivos[idx], BUFFER)

\* the history kept by every result loop
Historia(r, conta) ==
    /\ acessos' = acessos \cup {"ler"}
    /\ achadas' = IF ~r.stop /\ r.valor # Nulo /\ search(termoC, r.valor)
                  THEN Append(achadas, r.valor) ELSE achadas
    /\ marca' = IF r.stop THEN conta ELSE marca

\* the loop bookkeeping: the generator advances, or the next file begins
Avancar(r) ==
    IF r.stop THEN idx' = idx + 1 /\ ger' = GerNovo
    ELSE idx' = idx /\ ger' = r.ger

\* the test of the `elif` of each result loop
aceita(linha, termo) == valor_verdadeiro(buscar_termo(linha, termo))

\* lines 228-233: one turn of the loop that gathers LINHAS
PassoMemoria ==
    /\ pc = "memoria"
    /\ idx <= Len(arquivos)
    /\ \E r \in {Leitura} :
       /\ Avancar(r)
       /\ Historia(r, Len(LINHAS))
       /\ LINHAS' = IF ~r.stop /\ r.valor # Nulo /\ aceita(r.valor, termoC)
                    THEN Append(LINHAS, buscar_termo(r.valor, termoC))
                    ELSE LINHAS
    /\ UNCHANGED <<fs, args, BUFFER, ordem, pc, arquivos, termoC,
                   total_resultados, destino, reportado, fs0, execucao,
                   anterior, saidaB, saidaS>>

\* lines 234, 245, 254: count LINHAS and print
FimMemoria ==
    /\ pc = "memoria"
    /\ idx > Len(arquivos)
    /\ total_resultados' = Len(LINHAS)
    /\ reportado' = <<Len(LINHAS)>>
    /\ pc' = "fim"
    /\ UNCHANGED <<fs, args, BUFFER, ordem, arquivos, termoC, idx, ger,
                   LINHAS, destino, acessos, achadas, marca, fs0, execucao,
                   anterior, saidaB, saidaS>>

\* lines 238-244: one turn of the loop that writes as it finds
PassoGravar ==
    /\ pc = "gravar"
    /\ idx <= Len(arquivos)
    /\ \E r \in {Leitura} :
       /\ Avancar(r)
       /\ IF ~r.stop /\ r.valor # Nulo /\ aceita(r.valor, termoC)
          THEN \E w \in {write(fs[args.salvar].dados, destino.buf,
                                  destino.pend,
                                  buscar_termo(r.valor, termoC) \o <<NL>>)} :
                  /\ total_resultados' = total_resultados + 1
                  /\ fs' = [fs EXCEPT ![args.salvar].dados = w.disco]
                  /\ destino' = [aberto |-> w.ok, pend |-> w.pend,
                                 buf |-> w.buf]
                  /\ pc' = IF w.ok THEN "gravar" ELSE "erro"
                  /\ Historia(r, total_resultados + 1)
          ELSE /\ UNCHANGED <<total_resultados, fs, destino, pc>>
               /\ Historia(r, total_resultados)
    /\ UNCHANGED <<args, BUFFER, ordem, arquivos, termoC, LINHAS, reportado,
                   fs0, execucao, anterior, saidaB, saidaS>>

\* the end of the with block and lines 245, 254: close, then print
FimGravar ==
    /\ pc = "gravar"
    /\ idx > Len(arquivos)
    /\ \E w \in {close(fs[args.salvar].dados, destino.buf, destino.pend)} :
       /\ fs' = [fs EXCEPT ![args.salvar].dados = w.disco]
       /\ destino' = Fechado
       /\ pc' = IF w.ok THEN "fim" ELSE "erro"
       /\ reportado' = IF w.ok THEN <<total_resultados>> ELSE reportado
    /\ UNCHANGED <<args, BUFFER, ordem, arquivos, termoC, idx, ger, LINHAS,
                   total_resultados, acessos, achadas, marca, fs0, execucao,
                   anterior, saidaB, saidaS>>

\* lines 247-252: one turn of the loop that only counts
PassoContar ==
    /\ pc = "contar"
    /\ idx <= Len(arquivos)
    /\ \E r \in {Leitura} :
       /\ Avancar(r)
       /\ total_resultados' =
              IF ~r.stop /\ r.valor # Nulo /\ aceita(r.valor, termoC)
              THEN total_resultados + 1 ELSE total_resultados
       /\ Historia(r, total_resultados)
    /\ UNCHANGED <<fs, args, BUFFER, ordem, pc, arquivos, termoC, LINHAS,
                   destino, reportado, fs0, execucao, anterior, saidaB,
                   saidaS>>

\* lines 253-254: print
FimContar ==
    /\ pc = "contar"
    /\ idx > Len(arquivos)
    /\ reportado' = <<total_resultados>>
    /\ pc' = "fim"
    /\ UNCHANGED <<fs, args, BUFFER, ordem, arquivos, termoC, idx, ger,
                   LINHAS, total_resultados, destino, acessos, achadas,
                   marca, fs0, execucao, anterior, saidaB, saidaS>>

\* the same command line is run again on the file system the last run left
Reexecutar ==
    /\ pc \in {"fim", "erro"}
    /\ execucao < MaxExecucoes
    /\ execucao' = execucao + 1
    /\ anterior' = IF args.salvar \in DOMAIN fs THEN fs[args.salvar]
                   ELSE Ausente
    /\ fs0' = fs
    /\ pc' = "inicio"
    /\ arquivos' = <<>>
    /\ termoC' = compile(<<>>, FALSE)
    /\ idx' = 1
    /\ ger' = GerNovo
    /\ LINHAS' = <<>>
    /\ total_resultados' = 0
    /\ destino' = Fechado
    /\ reportado' = Nenhum
    /\ acessos' = {}
    /\ achadas' = <<>>
    /\ marca' = 0
    /\ BUFFER' = FALSE
    /\ UNCHANGED <<fs, args, ordem, saidaB, saidaS>>

-----------------------------------------------------------------------------
(* The line source on its own: list(ler_arquivo(arquivo)) in each mode *)

ColetarBuffer ==
    /\ pc = "linhas"
    /\ saidaB = Nenhum
    /\ BUFFER' = TRUE
    /\ saidaB' = <<ler_arquivo(fs, arquivos[1], TRUE)>>
    /\ UNCHANGED <<fs, args, ordem, pc, arquivos, termoC, idx, ger, LINHAS,
                   total_resultados, destino, reportado, acessos, achadas,
                   marca, fs0, execucao, anterior, saidaS>>

ColetarStream ==
    /\ pc = "linhas"
    /\ saidaS = Nenhum
    /\ BUFFER' = FALSE
    /\ saidaS' = <<ler_arquivo(fs, arquivos[1], FALSE)>>
    /\ UNCHANGED <<fs, args, ordem, pc, arquivos, termoC, idx, ger, LINHAS,
                   total_resultados, destino, reportado, acessos, achadas,
                   marca, fs0, execucao, anterior, saidaB>>

-----------------------------------------------------------------------------
(* Initial states *)

Nome(a, b, c) == <<a, b, c>>
ArqX == RaizD \o <<Nome("x", ".", "t")>>
ArqY == RaizD \o <<Nome("y", ".", "t")>>
SaidaDentro == RaizD \o <<Nome("o", ".", "t")>>
SaidaFora == << <<"o">> >>
Inexistente == << <<"n">> >>

Alfabeto == {"a", "A", NL, FF, ByteInvalido}
AlfabetoRepetir == {"a", NL}
AlfabetoLinhas == {"a", " ", NL, FF, ByteInvalido}

Argumentos(termo, regex, ic, dir, ext, salvar, buffer) ==
    [termo |-> termo, regex |-> regex, ignorecase |-> ic, diretorio |-> dir,
     extensao |-> tipo_extensao(ext), salvar |-> salvar, buffer |-> buffer]

\* the state of the process before main() runs
Partida ==
    /\ BUFFER = FALSE
    /\ termoC = compile(<<>>, FALSE)
    /\ idx = 1
    /\ ger = GerNovo
    /\ LINHAS = <<>>
    /\ total_resultados = 0
    /\ destino = Fechado
    /\ reportado = Nenhum
    /\ acessos = {}
    /\ achadas = <<>>
    /\ marca = 0
    /\ fs0 = fs
    /\ execucao = 1
    /\ anterior = Ausente
    /\ saidaB = Nenhum
    /\ saidaS = Nenhum

Arvore(ex, ey, eo) ==
    (RaizD :> Diretorio) @@ (ArqX :> ex) @@ (ArqY :> ey)
    @@ (SaidaDentro :> eo) @@ (SaidaFora :> Ausente) @@ (Inexistente :> Ausente)

\* one run over a directory of one varied file and an optional second one
Init ==
    /\ \E cx \in SeqsAte(Alfabeto, MaxTam),
          ey \in {Ausente, Arquivo(<<"a", NL>>)} :
           fs = Arvore(Arquivo(cx), ey, Ausente)
    /\ ordem \in {<<ArqX, ArqY, SaidaDentro>>, <<ArqY, ArqX, SaidaDentro>>}
    /\ \E termo \in {<<>>, <<"a">>, <<".">>, <<"(">>},
          regex \in BOOLEAN, ic \in BOOLEAN, buffer \in BOOLEAN,
          dir \in {RaizD, Inexistente},
          salvar \in {Nenhum, SaidaFora} :
           args = Argumentos(termo, regex, ic, dir, <<"t">>, salvar, buffer)
    /\ pc = "inicio"
    /\ arquivos = <<>>
    /\ Partida

Next ==
    \/ ListarArquivos
    \/ Compilar
    \/ AbrirDestino
    \/ PassoMemoria
    \/ FimMemoria
    \/ PassoGravar
    \/ FimGravar
    \/ PassoContar
    \/ FimContar

Spec == Init /\ [][Next]_vars

\* repeated runs, with a destination that may lie in the scanned directory
InitRepetir ==
    /\ \E cx \in SeqsAte(AlfabetoRepetir, MaxTam),
          eo \in {Ausente, Arquivo(<<"a", NL>>)} :
           fs = Arvore(Arquivo(cx), Ausente, eo)
    /\ ordem \in {<<ArqX, SaidaDentro, ArqY>>, <<SaidaDentro, ArqX, ArqY>>}
    /\ \E termo \in {<<>>, <<"a">>, <<"a", "a">>, <<"(">>},
          regex \in BOOLEAN, buffer \in BOOLEAN,
          dir \in {RaizD, Inexistente},
          salvar \in {Nenhum, SaidaDentro, SaidaFora} :
           args = Argumentos(termo, regex, FALSE, dir, <<"t">>, salvar, buffer)
    /\ pc = "inicio"
    /\ arquivos = <<>>
    /\ Partida

NextRepetir == Next \/ Reexecutar

SpecRepetir == InitRepetir /\ [][NextRepetir]_vars

\* a started run takes its next step; nothing obliges anyone to run it again
FairRepetir == SpecRepetir /\ WF_vars(Next)

\* the line source applied to one file in both modes
InitLinhas ==
    /\ \E cx \in SeqsAte(AlfabetoLinhas, MaxTam) :
           fs = Arvore(Arquivo(cx), Ausente, Ausente)
    /\ ordem = <<ArqX, ArqY, SaidaDentro>>
    /\ args = Argumentos(<<>>, FALSE, FALSE, ArqX, <<"t">>, Nenhum, FALSE)
    /\ pc = "linhas"
    /\ arquivos = <<ArqX>>
    /\ Partida

NextLinhas ==
    \/ ColetarBuffer
    \/ ColetarStream

SpecLinhas == InitLinhas /\ [][NextLinhas]_vars

\* the enumeration alone, over varied trees, roots and extensions
LA == RaizD \o <<Nome("a", ".", "t")>>
LB == RaizD \o <<Nome("b", ".", "l")>>
LS == RaizD \o << <<"s">> >>
LC == LS \o <<Nome("c", ".", "t")>>
LD == RaizD \o <<Nome("d", ".", "t")>>

InitListar ==
    /\ \E ea \in {Ausente, Arquivo(<<>>)}, eb \in {Ausente, Arquivo(<<>>)},
          es \in {Ausente, Diretorio}, ec \in {Ausente, Arquivo(<<>>)},
          ed \in {Ausente, Diretorio, Arquivo(<<>>)} :
           /\ es = Ausente => ec = Ausente
           /\ fs = (RaizD :> Diretorio) @@ (LA :> ea) @@ (LB :> eb)
                   @@ (LS :> es) @@ (LC :> ec) @@ (LD :> ed)
                   @@ (Inexistente :> Ausente)
    /\ ordem \in {<<LA, LB, LS, LC, LD>>, <<LD, LC, LS, LB, LA>>}
    /\ \E dir \in {RaizD, Ponto, LA, LB, LS, Inexistente},
          ext \in {<<"t">>, <<".", "t">>, <<"l">>, <<"*">>} :
           args = Argumentos(<<"a">>, FALSE, FALSE, dir, ext, Nenhum, FALSE)
    /\ pc = "inicio"
    /\ arquivos = <<>>
    /\ Partida

NextListar == ListarArquivos

SpecListar == InitListar /\ [][NextListar]_vars

-----------------------------------------------------------------------------
(* Properties *)

RECURSIVE Juntar(_, _)
Juntar(ls, sep) ==
    IF ls = <<>> THEN <<>>
    ELSE IF Len(ls) = 1 THEN ls[1]
    ELSE ls[1] \o sep \o Juntar(Tail(ls), sep)

RECURSIVE CadaComNL(_)
CadaComNL(ls) ==
    IF ls = <<>> THEN <<>> ELSE ls[1] \o <<NL>> \o CadaComNL(Tail(ls))

Ocorrencias(s, c) == Cardinality({i \in 1..Len(s) : s[i] = c})

Imagem(s) == {s[i] : i \in 1..Len(s)}

TerminaCom(n, suf) ==
    Len(n) >= Len(suf) /\ SubSeq(n, Len(n) - Len(suf) + 1, Len(n)) = suf

\* lines of file p, as the line source produces them, that the matcher accepts
CasadasDe(p) ==
    LET ls == ler_arquivo(fs, p, BUFFER) IN
    Cardinality({j \in 1..Len(ls) : ls[j] # Nulo /\ search(termoC, ls[j])})

RECURSIVE CasadasAte(_)
CasadasAte(n) ==
    IF n = 0 THEN 0 ELSE CasadasDe(arquivos[n]) + CasadasAte(n - 1)

RegexInvalida == args.regex /\ ~parse(args.termo).ok

TerminouComArquivos == pc = "fim" /\ arquivos # <<>>

\* C1: when a run with --salvar and --buffer over a non-empty file list is
\* complete, the destination is a file whose content is the matched lines in
\* order, joined by newlines, with no newline after the last one.
C1_DestinoRecebeLinhas ==
    (TerminouComArquivos /\ args.salvar # Nenhum /\ args.buffer)
        => /\ is_file(fs, args.salvar)
           /\ fs[args.salvar].dados = Juntar(achadas, <<NL>>)

\* C2: without --salvar the reported total is the number of lines, other
\* than the None sentinel, that the line source produces over the enumerated
\* files and that the compiled pattern matches, whatever the line holds.
C2_TotalContaTodaLinhaCasada ==
    (TerminouComArquivos /\ args.salvar = Nenhum)
        => reportado = <<CasadasAte(Len(arquivos))>>

\* C3: a file whose read fails, even after some of its lines were produced,
\* adds nothing to the results, and the files after it are still scanned.
C3_ArquivoFalhoNaoContribui ==
    /\ (pc \in {"memoria", "gravar", "contar"} /\ ger.estado = "falha")
           => Contagem = marca
    /\ TerminouComArquivos => idx = Len(arquivos) + 1

\* C4: with --regex and a term that is no valid regular expression the run
\* never ends successfully and touches the file system at no point.
C4_RegexInvalidaAbortaAntesDeES ==
    RegexInvalida => (acessos = {} /\ pc # "fim")

\* C5: after the same save-mode search is run a second time, the destination
\* is what the first run left, wherever the destination lies.
C5_SegundaExecucaoIdentica ==
    (execucao = 2 /\ pc \in {"fim", "erro"} /\ args.salvar # Nenhum)
        => fs[args.salvar] = anterior

\* C6: in streaming save mode, from the opening of the destination on, the
\* text given to it is the matched lines found so far, each followed by one
\* newline, the running total is the number of lines written, and the
\* reported total is the number of lines of the destination.
C6_DestinoAcompanhaCasadas ==
    /\ pc = "gravar" =>
           /\ Escrito = CadaComNL(achadas)
           /\ total_resultados = Len(achadas)
    /\ (TerminouComArquivos /\ args.salvar # Nenhum /\ ~args.buffer) =>
           /\ fs[args.salvar].dados = CadaComNL(achadas)
           /\ reportado = <<Ocorrencias(fs[args.salvar].dados, NL)>>

\* C7: the enumeration gives nothing for a missing root, the root itself for
\* a regular file, and for a directory exactly the regular files below it
\* whose name ends with "." followed by the extension.
C7_EnumeracaoPorSufixo ==
    pc # "inicio" =>
        LET d == IF args.diretorio = Ponto THEN DIRETORIO_CHAMADO
                 ELSE args.diretorio
        IN /\ (d \notin DOMAIN fs \/ fs[d].tipo = "ausente")
                  => arquivos = <<>>
           /\ is_file(fs, d) => arquivos = <<d>>
           /\ is_dir(fs, d) =>
                  /\ Imagem(arquivos) =
                         {p \in DOMAIN fs :
                              /\ is_file(fs, p)
                              /\ Abaixo(p, d)
                              /\ TerminaCom(p[Len(p)], <<".">> \o args.extensao)}
                  /\ Cardinality(Imagem(arquivos)) = Len(arquivos)

SemFalha(ls) == \A i \in 1..Len(ls) : ls[i] # Nulo

\* C8: on a file both modes read without failure they yield equally many
\* lines, each streaming line is the buffered line stripped of surrounding
\* whitespace, and the buffered lines are the content cut at its line
\* terminators only.
C8_ModosDiferemSoPorStrip ==
    (saidaB # Nenhum /\ saidaS # Nenhum
     /\ SemFalha(saidaB[1]) /\ SemFalha(saidaS[1]))
        => /\ Len(saidaS[1]) = Len(saidaB[1])
           /\ \A i \in 1..Len(saidaB[1]) :
                  i <= Len(saidaS[1]) => saidaS[1][i] = strip(saidaB[1][i])
           /\ fs[ArqX].dados \in {Juntar(saidaB[1], <<NL>>),
                                  Juntar(saidaB[1], <<NL>>) \o <<NL>>}

\* C9: when the enumeration finds no file the run ends at once: the
\* destination is not opened, no file is read, no total is printed and the
\* file system is as the run found it.
C9_ListaVaziaNaoTocaNada ==
    (pc = "fim" /\ arquivos = <<>>)
        => /\ fs = fs0
           /\ reportado = Nenhum
           /\ ~destino.aberto
           /\ acessos \subseteq {"listar"}

\* C9 witness: a run with --salvar given ended on an empty file list
C9_Witness ==
    /\ pc = "fim"
    /\ arquivos = <<>>
    /\ args.salvar # Nenhum
    /\ acessos = {"listar"}

\* C10: every run with a usable pattern reaches its end and reports a total,
\* also when the destination is one of the files being read.
C10_TodaExecucaoTermina ==
    ~RegexInvalida => <>(pc = "fim")

====
